---------------------------- MODULE Spec2Model ----------------------------
(***************************************************************************)
(* A model of the parallel memory allocator of                             *)
(* src/allocators/a2alloc/a2alloc.c: the heap as a sparse array of 32-bit  *)
(* words, the allocator's globals, its locks, and one program counter per  *)
(* calling thread.  Every structure the allocator keeps inside the heap    *)
(* (arena directory, page-refs, block freelists, page metadata, large      *)
(* headers and large freelist entries) lives in mem at the address the     *)
(* code gives it, so that fields sharing bytes share them here too.        *)
(***************************************************************************)
EXTENDS Integers, Sequences, FiniteSets

(* ------------------------------------------------------------------ *)
(* Program constants                                                    *)
(* ------------------------------------------------------------------ *)
PAGE_SIZE == 4096
CACHELINE_SIZE == 64
NUM_CLASS == 9
BASE_CLASS == 3
\* sizeof(int) and sizeof(void *) on x86_64
IntSize == 4
PtrSize == 8
NULL == 0

\* field offsets of struct pageref {next, freelist, freelist_base, num_free}
PR_next == 0
PR_freelist == PtrSize
PR_freelist_base == 2 * PtrSize
PR_num_free == 3 * PtrSize
\* field offsets of struct big_freelist {int num_pages; (padding) next}
BF_num_pages == 0
BF_next == PtrSize

(* ------------------------------------------------------------------ *)
(* Bounds of the model                                                  *)
(* ------------------------------------------------------------------ *)
\* pages between dseg_lo and dseg_hi
HeapPages == 5
\* value returned by getNumProcessors()
NumProcs == 2
\* calls of mm_init after the first one
MaxReInit == 1
\* calls of mm_malloc, mm_free and mm_init in one run: of a single caller,
\* and of two concurrent callers
SeqCalls == 5
ConcCalls == 4
\* calls in one run of a single caller that draws from class 1024 alone
SubCalls == 11

Threads == {1, 2}
Procs == 0 .. (NumProcs - 1)
\* request sizes the callers draw from: the two ends of class 2048 and a
\* one-page and a two-page large request
SubSizes == {2040, 2048}
BigSizes == {2049, 8000}
\* the two ends of class 1024, four blocks to the page
SmallSizes == {1016, 1024}
\* words a caller may store in the payload it owns: -1 .. MaxUserWord
MaxUserWord == 0
UserWords == (-1) .. MaxUserWord

\* dseg_lo, dseg_hi of memlib; a pointer is the 64-bit value lo + hi * PtrHi
\* of its two words, PtrHi standing for 2^32 (it exceeds every heap address)
DsegLo == 16 * PAGE_SIZE
DsegHi == DsegLo + HeapPages * PAGE_SIZE
PtrHi == 4096 * PAGE_SIZE
\* the address of an object of the caller that is not in the heap, and the
\* pointers a caller stores in its payload
UserAddr == DsegHi + PAGE_SIZE
UserPtrs == {NULL, UserAddr}

(* ------------------------------------------------------------------ *)
(* The heap: words that are not in the domain read as 0                 *)
(* ------------------------------------------------------------------ *)
Rd32(m, a) == IF a \in DOMAIN m THEN m[a] ELSE 0

Wr32(m, a, v) ==
    IF v = 0
    THEN [x \in (DOMAIN m) \ {a} |-> m[x]]
    ELSE [x \in (DOMAIN m) \cup {a} |-> IF x = a THEN v ELSE m[x]]

Rd64(m, a) == (Rd32(m, a) % PtrHi) + Rd32(m, a + IntSize) * PtrHi

Wr64(m, a, v) == Wr32(Wr32(m, a, v % PtrHi), a + IntSize, v \div PtrHi)

\* a byte store that is lost
KeepByte(m, a, b) == m

\* a store through a char *: only the low byte of the word changes
WrByte(m, a, b) ==
    LET old == Rd32(m, a)
    IN  Wr32(m, a, old - (old % 256) + (b % 256))

bzero(m, a, n) == [x \in {y \in DOMAIN m : y < a \/ y >= a + n} |-> m[x]]

(* ------------------------------------------------------------------ *)
(* Private helper functions                                             *)
(* ------------------------------------------------------------------ *)
Pow2(n) == CASE n = 0 -> 1 [] n = 1 -> 2 [] n = 2 -> 4 [] n = 3 -> 8
             [] n = 4 -> 16 [] n = 5 -> 32 [] n = 6 -> 64 [] n = 7 -> 128
             [] n = 8 -> 256 [] n = 9 -> 512 [] n = 10 -> 1024
             [] n = 11 -> 2048 [] n = 12 -> 4096

\* 1 << (BASE_CLASS + block_class_index)
ClassSize(c) == Pow2(BASE_CLASS + c)

get_block_class_index(sz) ==
    IF \E i \in 0 .. (NUM_CLASS - 1) : ClassSize(i) >= sz
    THEN CHOOSE i \in 0 .. (NUM_CLASS - 1) :
            /\ ClassSize(i) >= sz
            /\ \A j \in 0 .. (i - 1) : ClassSize(j) < sz
    ELSE -1

num_processors == NumProcs

get_processor_index(cpu) == cpu % num_processors

\* a lookup that hands every processor the first mutex of the table
FirstMutex(base, processor_index) == base

processor_mutex(base, processor_index) ==
    base + processor_index * CACHELINE_SIZE

DirSlot(processor_index, block_class_index) ==
    DsegLo + processor_index * PtrSize * NUM_CLASS
           + block_class_index * PtrSize

pageref_head(m, processor_index, block_class_index) ==
    Rd64(m, DirSlot(processor_index, block_class_index))

set_pageref_head(m, processor_index, block_class_index, address) ==
    Wr64(m, DirSlot(processor_index, block_class_index), address)

get_page_head(address) ==
    DsegLo + ((address - DsegLo) \div PAGE_SIZE) * PAGE_SIZE

\* memlib's mem_sbrk: <<pointer or NULL, new break>>
mem_sbrk(b, n) ==
    IF b + n > DsegHi THEN <<NULL, b>> ELSE <<b, b + n>>

(* ------------------------------------------------------------------ *)
(* allocate_pageref: the loops and stores on the heap                   *)
(* ------------------------------------------------------------------ *)
\* lines 271-276: carve the metadata page into page-refs from offset
\* CACHELINE_SIZE on, each pushed on new_free_page_refs (nf on entry): the
\* record at offset i links to the one pushed before it; <<heap, new head>>
PagerefOffsets ==
    {k * CACHELINE_SIZE : k \in 1 .. (PAGE_SIZE \div CACHELINE_SIZE - 1)}

FillPagerefs(m, page_ref, nf) ==
    LET link(i) == IF i = CACHELINE_SIZE THEN nf
                   ELSE page_ref + i - CACHELINE_SIZE
        lo == {page_ref + i + PR_next : i \in PagerefOffsets}
        hi == {a + IntSize : a \in lo}
        val(x) == IF x \in lo THEN link(x - page_ref - PR_next) % PtrHi
                  ELSE IF x \in hi
                  THEN link(x - IntSize - page_ref - PR_next) \div PtrHi
                  ELSE m[x]
    IN  <<[x \in {y \in (DOMAIN m) \cup lo \cup hi : val(y) # 0} |-> val(x)],
          page_ref + PAGE_SIZE - CACHELINE_SIZE>>

\* an attach that links the page-ref nowhere
AttachNowhere(m, page_ref, processor_index, block_class_index) == m

\* lines 289-291: the page-ref becomes the head of its arena list
AttachPageref(m, page_ref, processor_index, block_class_index) ==
    LET old_head == pageref_head(m, processor_index, block_class_index)
    IN  set_pageref_head(Wr64(m, page_ref + PR_next, old_head),
                         processor_index, block_class_index, page_ref)

\* lines 309-315: every class-sized slot of the page is pushed in turn
RECURSIVE BuildFreelist(_, _, _, _, _)
BuildFreelist(m, page_ref, base, block_class_index, i) ==
    IF i < PAGE_SIZE
    THEN LET m1 == Wr64(m, base + i, Rd64(m, page_ref + PR_freelist))
             m2 == Wr64(m1, page_ref + PR_freelist, base + i)
             m3 == Wr32(m2, page_ref + PR_num_free,
                        Rd32(m2, page_ref + PR_num_free) + 1)
         IN  BuildFreelist(m3, page_ref, base, block_class_index,
                           i + ClassSize(block_class_index))
    ELSE m

\* lines 304-319: empty the page-ref, build the freelist of the page at
\* freelist_base_address, then store the two metadata bytes
BuildPage(m, page_ref, freelist_base_address, processor_index, block_class_index) ==
    LET m1 == Wr32(Wr64(m, page_ref + PR_freelist, NULL),
                   page_ref + PR_num_free, 0)
        m2 == BuildFreelist(m1, page_ref, freelist_base_address,
                            block_class_index, 0)
        fb == Rd64(m2, page_ref + PR_freelist_base)
    IN  WrByte(WrByte(m2, fb, processor_index), fb + IntSize,
               block_class_index)

(* ------------------------------------------------------------------ *)
(* subpage_mm_malloc                                                    *)
(* ------------------------------------------------------------------ *)
\* lines 353-356: swap the block at the page base with its successor
SwapBaseBlock(m, page_ref) ==
    LET head == Rd64(m, page_ref + PR_freelist)
        old_freelist_next == Rd64(m, head)
        m1 == Wr64(m, head, Rd64(m, old_freelist_next))
        m2 == Wr64(m1, old_freelist_next, head)
    IN  Wr64(m2, page_ref + PR_freelist, old_freelist_next)

\* lines 348-350: may the block at the page base serve the request
BaseBlockFits(block_class_index, sz) == ClassSize(block_class_index) - 8 >= sz

\* lines 338-364: first page-ref with a usable free block; <<page_ref, heap>>
RECURSIVE FindPageref(_, _, _, _)
FindPageref(m, page_ref, block_class_index, sz) ==
    IF page_ref = NULL THEN <<NULL, m>>
    ELSE IF Rd32(m, page_ref + PR_num_free) > 0
    THEN IF Rd64(m, page_ref + PR_freelist)
              = Rd64(m, page_ref + PR_freelist_base)
         THEN IF BaseBlockFits(block_class_index, sz) THEN <<page_ref, m>>
              ELSE IF Rd32(m, page_ref + PR_num_free) > 1
              THEN <<page_ref, SwapBaseBlock(m, page_ref)>>
              ELSE FindPageref(m, Rd64(m, page_ref + PR_next),
                               block_class_index, sz)
         ELSE <<page_ref, m>>
    ELSE FindPageref(m, Rd64(m, page_ref + PR_next), block_class_index, sz)

\* lines 375-376: the pointer handed out for the popped block
BlockPointer(memory, freelist_base) ==
    IF memory = freelist_base THEN memory + 2 * IntSize ELSE memory

\* a pop that leaves num_free as it was
PopWithoutCount(m, page_ref) ==
    LET memory == Rd64(m, page_ref + PR_freelist)
        m2 == Wr64(m, page_ref + PR_freelist, Rd64(m, memory))
    IN  <<m2, BlockPointer(memory, Rd64(m2, page_ref + PR_freelist_base))>>

\* lines 370-376: pop the head of the page-ref's freelist; <<heap, result>>
PopBlock(m, page_ref) ==
    LET memory == Rd64(m, page_ref + PR_freelist)
        m1 == Wr32(m, page_ref + PR_num_free,
                   Rd32(m, page_ref + PR_num_free) - 1)
        m2 == Wr64(m1, page_ref + PR_freelist, Rd64(m1, memory))
    IN  <<m2, BlockPointer(memory, Rd64(m2, page_ref + PR_freelist_base))>>

(* ------------------------------------------------------------------ *)
(* subpage_mm_free                                                      *)
(* ------------------------------------------------------------------ *)
\* lines 401-407: <<page_ref, prior_page_ref>>, page_ref NULL if none matches
RECURSIVE FindOwner(_, _, _, _)
FindOwner(m, page_ref, prior_page_ref, page_head) ==
    IF page_ref = NULL THEN <<NULL, prior_page_ref>>
    ELSE IF Rd64(m, page_ref + PR_freelist_base) = page_head
    THEN <<page_ref, prior_page_ref>>
    ELSE FindOwner(m, Rd64(m, page_ref + PR_next), page_ref, page_head)

\* lines 410-414: push ptr on the page-ref's freelist
PushBlock(m, page_ref, ptr) ==
    LET tmp == Rd64(m, page_ref + PR_freelist)
        m1 == Wr64(m, page_ref + PR_freelist, ptr)
        m2 == Wr64(m1, ptr, tmp)
    IN  Wr32(m2, page_ref + PR_num_free, Rd32(m2, page_ref + PR_num_free) + 1)

\* line 416: is every block of the page free
PageIsEmpty(m, page_ref, block_class_index) ==
    Rd32(m, page_ref + PR_num_free)
        = PAGE_SIZE \div ClassSize(block_class_index)

\* a detach that forgets lines 419-422, the unlink from the arena list
DetachWithoutUnlink(m, page_ref, prior_page_ref, processor_index, block_class_index) ==
    bzero(m, Rd64(m, page_ref + PR_freelist_base), PAGE_SIZE)

\* lines 419-424: unlink the page-ref from its arena list and zero its page
DetachPageref(m, page_ref, prior_page_ref, processor_index, block_class_index) ==
    LET nxt == Rd64(m, page_ref + PR_next)
        m1 == IF prior_page_ref # NULL
              THEN Wr64(m, prior_page_ref + PR_next, nxt)
              ELSE set_pageref_head(m, processor_index, block_class_index, nxt)
    IN  bzero(m1, Rd64(m1, page_ref + PR_freelist_base), PAGE_SIZE)

(* ------------------------------------------------------------------ *)
(* big_mm_malloc, big_mm_free                                           *)
(* ------------------------------------------------------------------ *)
\* line 76
NumPages(sz) == (sz + PAGE_SIZE - 1) \div PAGE_SIZE

\* a walk that never splits an entry
SplitsNever(entry_pages, num_pages) == FALSE

\* line 84: is the entry larger than the request, so that it is split
SplitsEntry(entry_pages, num_pages) == entry_pages > num_pages

\* lines 90-93: take the tail of the entry at curr
SplitEntry(m, bl, curr, num_pages) ==
    LET rest == Rd32(m, curr + BF_num_pages) - num_pages
        m1 == Wr32(m, curr + BF_num_pages, rest)
        header_ptr == curr + rest * PAGE_SIZE
    IN  [mem |-> Wr32(m1, header_ptr, num_pages), big_list |-> bl,
         result |-> header_ptr + IntSize, via |-> "split"]

\* lines 99-106: unlink the entry at curr and use it
UnlinkEntry(m, bl, curr, prior) ==
    [mem |-> IF prior # NULL
             THEN Wr64(m, prior + BF_next, Rd64(m, curr + BF_next))
             ELSE m,
     big_list |-> IF prior # NULL THEN bl ELSE Rd64(m, curr + BF_next),
     result |-> curr + IntSize, via |-> "exact"]

\* lines 82-114: walk the big freelist from curr
RECURSIVE BigWalk(_, _, _, _, _)
BigWalk(m, bl, curr, prior, num_pages) ==
    IF curr = NULL
    THEN [mem |-> m, big_list |-> bl, result |-> NULL, via |-> "grow"]
    ELSE IF SplitsEntry(Rd32(m, curr + BF_num_pages), num_pages)
    THEN SplitEntry(m, bl, curr, num_pages)
    ELSE IF Rd32(m, curr + BF_num_pages) = num_pages
    THEN UnlinkEntry(m, bl, curr, prior)
    ELSE BigWalk(m, bl, Rd64(m, curr + BF_next), curr, num_pages)

\* lines 127-131: header of a span fresh from mem_sbrk; the payload pointer
FreshHeader(m, header_ptr, num_pages) ==
    Wr32(Wr32(m, header_ptr, -1), header_ptr + IntSize, num_pages)

\* line 146
HeaderOf(ptr) == ptr - IntSize

\* lines 150-151: <<heap, big_list>>
PushEntry(m, bl, newly_freed) ==
    <<Wr64(m, newly_freed + BF_next, bl), newly_freed>>

(* ------------------------------------------------------------------ *)
(* State                                                                *)
(* ------------------------------------------------------------------ *)
VARIABLES
    mem,                    \* the heap words between dseg_lo and the break
    brk,                    \* memlib's break: the next address mem_sbrk returns
    big_list,               \* static globals of a2alloc.c
    new_free_page_refs,
    reusable_page_refs,
    processor_locks_base,
    sbrk_lock,              \* the three static mutexes: 0 or the holder
    big_list_lock,
    free_refs_lock,
    pc,                     \* where each thread is in its call
    loc,                    \* the locals of each thread's call
    live,                   \* the allocations the callers hold
    crashed,                \* the process took a SIGSEGV
    inits,                  \* calls of mm_init so far
    pre,                    \* shared state at the start of a call running alone
    last,                   \* the page recycled by the latest call, if any
    callers,                \* the threads that issue calls
    budget,                 \* calls the callers may still issue
    meta_pages              \* the pages mem_sbrk returned for page-refs

vars == <<mem, brk, big_list, new_free_page_refs, reusable_page_refs,
          processor_locks_base, sbrk_lock, big_list_lock, free_refs_lock,
          pc, loc, live, crashed, inits, pre, last, callers, budget,
          meta_pages>>

globals == <<big_list, new_free_page_refs, reusable_page_refs,
             processor_locks_base>>
locks == <<sbrk_lock, big_list_lock, free_refs_lock>>
env == <<callers, budget, meta_pages>>

L0 == [op |-> "none", sz |-> 0, processor_index |-> 0,
       block_class_index |-> 0, page_ref |-> 0, ptr |-> 0, num_pages |-> 0,
       via |-> "none", result |-> 0, sbrk_null |-> FALSE, sbrk_calls |-> 0]

NoPre == [t |-> 0, shared |-> <<>>, after |-> FALSE]
NoLast == [page_ref |-> 0, processor_index |-> 0, block_class_index |-> 0,
           base |-> 0]

InHeap(a) == DsegLo <= a /\ a < DsegHi

\* may the address be read and written without a fault
Mapped(a) == InHeap(a) \/ a = UserAddr

\* the nodes of a singly linked list from a, the link at offset off
RECURSIVE Chain(_, _, _, _)
Chain(m, a, off, fuel) ==
    IF a = NULL \/ fuel = 0 \/ ~InHeap(a) THEN <<>>
    ELSE <<a>> \o Chain(m, Rd64(m, a + off), off, fuel - 1)

Fuel == HeapPages * (PAGE_SIZE \div CACHELINE_SIZE)
Classes == 0 .. (NUM_CLASS - 1)

Range(f) == {f[i] : i \in DOMAIN f}

ArenaList(m, p, c) == Chain(m, pageref_head(m, p, c), PR_next, Fuel)
ReusableList(m, head) == Chain(m, head, PR_next, Fuel)
FreshList(m, head) == Chain(m, head, PR_next, Fuel)
BigList(m, head) == Chain(m, head, BF_next, Fuel)

Attached(m) == UNION {Range(ArenaList(m, p, c)) : p \in Procs, c \in Classes}

\* the shared allocator state a call can be compared against
SharedOf(m, bl, nf, rp) ==
    [arena |-> [x \in Procs \X Classes |-> ArenaList(m, x[1], x[2])],
     reusable |-> ReusableList(m, rp),
     fresh |-> FreshList(m, nf),
     refs |-> [r \in Attached(m) \cup Range(ReusableList(m, rp)) |->
                 <<Rd64(m, r + PR_freelist), Rd32(m, r + PR_num_free),
                   Rd64(m, r + PR_freelist_base)>>],
     big |-> [i \in DOMAIN BigList(m, bl) |->
                 <<BigList(m, bl)[i],
                   Rd32(m, BigList(m, bl)[i] + BF_num_pages)>>]]

Shared == SharedOf(mem, big_list, new_free_page_refs, reusable_page_refs)

\* line 468-470 of mm_init
freelist_space == NUM_CLASS * PtrSize * num_processors
mutex_space == CACHELINE_SIZE * num_processors
page_needed == (freelist_space + mutex_space + PAGE_SIZE - 1) \div PAGE_SIZE

\* the state after mem_init and the first mm_init
Start ==
    /\ mem = [x \in {} |-> 0]
    /\ brk = DsegLo + page_needed * PAGE_SIZE
    /\ big_list = NULL
    /\ new_free_page_refs = NULL
    /\ reusable_page_refs = NULL
    /\ processor_locks_base = DsegLo + freelist_space
    /\ sbrk_lock = 0
    /\ big_list_lock = 0
    /\ free_refs_lock = 0
    /\ pc = [t \in Threads |-> "idle"]
    /\ loc = [t \in Threads |-> L0]
    /\ live = {}
    /\ crashed = FALSE
    /\ inits = 1
    /\ pre = NoPre
    /\ last = NoLast
    /\ meta_pages = {}

\* two threads call concurrently
Init ==
    /\ Start
    /\ callers = Threads
    /\ budget = ConcCalls

\* one thread calls
InitSeq ==
    /\ Start
    /\ callers = {1}
    /\ budget = SeqCalls

\* one thread calls, for blocks of one class
InitSub ==
    /\ Start
    /\ callers = {1}
    /\ budget = SubCalls

\* thread t issues one more call
Call(t) ==
    /\ ~crashed
    /\ t \in callers
    /\ pc[t] = "idle"
    /\ budget > 0
    /\ budget' = budget - 1
    /\ UNCHANGED <<callers, meta_pages>>

OthersIdle(t) == \A u \in Threads \ {t} : pc[u] = "idle"

\* an unlock that leaves the mutex with its holder
KeepsMutex(holder) == holder

\* pthread_mutex_unlock on one of the three static mutexes: the new value
\* of the lock word
pthread_mutex_unlock(holder) == 0

Goto(t, label) == pc' = [pc EXCEPT ![t] = label]

MutexOf(t) == processor_mutex(processor_locks_base, loc[t].processor_index)

(* ------------------------------------------------------------------ *)
(* mm_malloc: the call, then subpage_mm_malloc and allocate_pageref     *)
(* ------------------------------------------------------------------ *)
\* lines 438-445, 331-332, 76: dispatch on the size; cpu is sched_getcpu()
mm_malloc(t, sz, cpu) ==
    /\ Call(t)
    /\ LET sub == sz <= PAGE_SIZE \div 2
       IN  /\ Goto(t, IF sub THEN "sm_lock" ELSE "bm_lock")
           /\ loc' = [loc EXCEPT ![t] =
                 [L0 EXCEPT !.op = "malloc", !.sz = sz,
                   !.processor_index =
                       IF sub THEN get_processor_index(cpu) ELSE 0,
                   !.block_class_index =
                       IF sub THEN get_block_class_index(sz) ELSE 0,
                   !.num_pages =
                       IF sub THEN 0 ELSE NumPages(sz + 2 * IntSize)]]
           /\ pre' = IF OthersIdle(t)
                     THEN [t |-> t, shared |-> Shared,
                           after |-> /\ sub
                                     /\ last.page_ref # NULL
                                     /\ last.processor_index
                                          = get_processor_index(cpu)
                                     /\ last.block_class_index
                                          = get_block_class_index(sz)]
                     ELSE NoPre
    /\ last' = NoLast
    /\ UNCHANGED <<mem, brk, globals, locks, live, crashed, inits>>

\* line 334
sm_lock(t) ==
    /\ ~crashed
    /\ pc[t] = "sm_lock"
    /\ Rd32(mem, MutexOf(t)) = 0
    /\ mem' = Wr32(mem, MutexOf(t), t)
    /\ Goto(t, "sm_walk")
    /\ UNCHANGED <<brk, globals, locks, loc, live, crashed, inits, pre, last>>
    /\ UNCHANGED env

\* lines 370-378 on the heap m: pop, unlock the arena, hand the pointer back;
\* line 373 reads the link of the head, a head that is not mapped faults
PopAndReturn(t, m, page_ref) ==
    LET r == PopBlock(m, page_ref)
    IN  IF Mapped(Rd64(m, page_ref + PR_freelist))
        THEN /\ mem' = Wr32(r[1], MutexOf(t), 0)
             /\ loc' = [loc EXCEPT ![t].result = r[2], ![t].via = "sub",
                                   ![t].page_ref = page_ref]
             /\ Goto(t, "ret")
             /\ UNCHANGED crashed
        ELSE /\ mem' = Wr32(m, page_ref + PR_num_free,
                            Rd32(m, page_ref + PR_num_free) - 1)
             /\ loc' = [loc EXCEPT ![t].page_ref = page_ref]
             /\ Goto(t, "segv")
             /\ crashed' = TRUE

\* lines 335-378: the list walk; a page-ref found is popped at once
sm_walk(t) ==
    /\ ~crashed
    /\ pc[t] = "sm_walk"
    /\ LET p == loc[t].processor_index
           c == loc[t].block_class_index
           f == FindPageref(mem, pageref_head(mem, p, c), c, loc[t].sz)
       IN  IF f[1] = NULL
           THEN /\ Goto(t, "ap_lock")
                /\ UNCHANGED <<mem, loc, crashed>>
           ELSE PopAndReturn(t, f[2], f[1])
    /\ UNCHANGED <<brk, globals, locks, live, inits, pre, last>>
    /\ UNCHANGED env

\* line 249
ap_lock(t) ==
    /\ ~crashed
    /\ pc[t] = "ap_lock"
    /\ free_refs_lock = 0
    /\ free_refs_lock' = t
    /\ Goto(t, "ap_take")
    /\ UNCHANGED <<mem, brk, globals, sbrk_lock, big_list_lock, loc, live,
                   crashed, inits, pre, last>>
    /\ UNCHANGED env

\* lines 253-258, 287-320, 370-378: a reusable page-ref keeps its page
ap_take_reusable(t) ==
    /\ ~crashed
    /\ pc[t] = "ap_take"
    /\ reusable_page_refs # NULL
    /\ LET p == loc[t].processor_index
           c == loc[t].block_class_index
           page_ref == reusable_page_refs
           m1 == AttachPageref(mem, page_ref, p, c)
           m2 == BuildPage(m1, page_ref, Rd64(m1, page_ref + PR_freelist_base),
                           p, c)
       IN  /\ reusable_page_refs' = Rd64(mem, page_ref + PR_next)
           /\ PopAndReturn(t, m2, page_ref)
    /\ free_refs_lock' = pthread_mutex_unlock(free_refs_lock)
    /\ UNCHANGED <<brk, big_list, new_free_page_refs, processor_locks_base,
                   sbrk_lock, big_list_lock, live, inits, pre, last>>
    /\ UNCHANGED env

\* lines 278-293: a fresh page-ref is taken and attached; it has no page yet
ap_take_fresh(t) ==
    /\ ~crashed
    /\ pc[t] = "ap_take"
    /\ reusable_page_refs = NULL
    /\ new_free_page_refs # NULL
    /\ LET page_ref == new_free_page_refs
       IN  /\ new_free_page_refs' = Rd64(mem, page_ref + PR_next)
           /\ mem' = AttachPageref(mem, page_ref, loc[t].processor_index,
                                   loc[t].block_class_index)
           /\ loc' = [loc EXCEPT ![t].page_ref = page_ref]
    /\ free_refs_lock' = pthread_mutex_unlock(free_refs_lock)
    /\ Goto(t, "ap_data_lock")
    /\ UNCHANGED <<brk, big_list, reusable_page_refs, processor_locks_base,
                   sbrk_lock, big_list_lock, live, crashed, inits, pre, last>>
    /\ UNCHANGED env

\* line 265: both pool lists are empty, the growth lock is taken
ap_meta_lock(t) ==
    /\ ~crashed
    /\ pc[t] = "ap_take"
    /\ reusable_page_refs = NULL
    /\ new_free_page_refs = NULL
    /\ sbrk_lock = 0
    /\ sbrk_lock' = t
    /\ Goto(t, "ap_meta_sbrk")
    /\ UNCHANGED <<mem, brk, globals, big_list_lock, free_refs_lock, loc,
                   live, crashed, inits, pre, last>>
    /\ UNCHANGED env

\* lines 266-293: a page of page-refs; the loop stores through the result
\* of mem_sbrk without a test, a NULL result faults on the first store
ap_meta_sbrk(t) ==
    /\ ~crashed
    /\ pc[t] = "ap_meta_sbrk"
    /\ LET r == mem_sbrk(brk, PAGE_SIZE)
           page_ref == r[1]
           f == FillPagerefs(mem, page_ref, new_free_page_refs)
       IN  /\ brk' = r[2]
           /\ IF page_ref = NULL
              THEN /\ crashed' = TRUE
                   /\ Goto(t, "segv")
                   /\ loc' = [loc EXCEPT ![t].sbrk_null = TRUE,
                                         ![t].sbrk_calls = @ + 1]
                   /\ UNCHANGED <<mem, new_free_page_refs, free_refs_lock,
                                  meta_pages>>
              ELSE /\ new_free_page_refs' = f[2]
                   /\ meta_pages' = meta_pages \cup {page_ref}
                   /\ mem' = AttachPageref(f[1], page_ref,
                                           loc[t].processor_index,
                                           loc[t].block_class_index)
                   /\ free_refs_lock' = pthread_mutex_unlock(free_refs_lock)
                   /\ loc' = [loc EXCEPT ![t].page_ref = page_ref,
                                         ![t].sbrk_calls = @ + 1]
                   /\ Goto(t, "ap_data_lock")
                   /\ UNCHANGED crashed
    /\ sbrk_lock' = pthread_mutex_unlock(sbrk_lock)
    /\ UNCHANGED <<big_list, reusable_page_refs, processor_locks_base,
                   big_list_lock, live, inits, pre, last>>
    /\ UNCHANGED <<callers, budget>>

\* line 297
ap_data_lock(t) ==
    /\ ~crashed
    /\ pc[t] = "ap_data_lock"
    /\ sbrk_lock = 0
    /\ sbrk_lock' = t
    /\ Goto(t, "ap_data_sbrk")
    /\ UNCHANGED <<mem, brk, globals, big_list_lock, free_refs_lock, loc,
                   live, crashed, inits, pre, last>>
    /\ UNCHANGED env

\* lines 299-320, 370-378: the data page; its address is stored and used
\* without a test, a NULL result faults on the first store of line 312
ap_data_sbrk(t) ==
    /\ ~crashed
    /\ pc[t] = "ap_data_sbrk"
    /\ LET r == mem_sbrk(brk, PAGE_SIZE)
           freelist_base_address == r[1]
           page_ref == loc[t].page_ref
           m1 == Wr64(mem, page_ref + PR_freelist_base, freelist_base_address)
       IN  /\ brk' = r[2]
           /\ IF freelist_base_address = NULL
              THEN /\ mem' = Wr32(Wr64(m1, page_ref + PR_freelist, NULL),
                                  page_ref + PR_num_free, 0)
                   /\ crashed' = TRUE
                   /\ Goto(t, "segv")
                   /\ loc' = [loc EXCEPT ![t].sbrk_null = TRUE,
                                         ![t].sbrk_calls = @ + 1]
              ELSE /\ LET m2 == BuildPage(m1, page_ref, freelist_base_address,
                                          loc[t].processor_index,
                                          loc[t].block_class_index)
                          q == PopBlock(m2, page_ref)
                      IN  /\ mem' = Wr32(q[1], MutexOf(t), 0)
                          /\ loc' = [loc EXCEPT ![t].result = q[2],
                                                ![t].via = "sub",
                                                ![t].sbrk_calls = @ + 1]
                   /\ Goto(t, "ret")
                   /\ UNCHANGED crashed
    /\ sbrk_lock' = pthread_mutex_unlock(sbrk_lock)
    /\ UNCHANGED <<globals, big_list_lock, free_refs_lock, live, inits, pre,
                   last>>
    /\ UNCHANGED env

(* ------------------------------------------------------------------ *)
(* big_mm_malloc                                                        *)
(* ------------------------------------------------------------------ *)
\* line 77
bm_lock(t) ==
    /\ ~crashed
    /\ pc[t] = "bm_lock"
    /\ big_list_lock = 0
    /\ big_list_lock' = t
    /\ Goto(t, "bm_walk")
    /\ UNCHANGED <<mem, brk, globals, sbrk_lock, free_refs_lock, loc, live,
                   crashed, inits, pre, last>>
    /\ UNCHANGED env

\* lines 78-119: the walk under the lock; without a fit the heap must grow
bm_walk(t) ==
    /\ ~crashed
    /\ pc[t] = "bm_walk"
    /\ LET w == BigWalk(mem, big_list, big_list, NULL, loc[t].num_pages)
       IN  /\ mem' = w.mem
           /\ big_list' = w.big_list
           /\ IF w.result # NULL
              THEN /\ loc' = [loc EXCEPT ![t].result = w.result,
                                         ![t].via = w.via]
                   /\ Goto(t, "ret")
              ELSE /\ Goto(t, "bm_sbrk_lock")
                   /\ UNCHANGED loc
    /\ big_list_lock' = pthread_mutex_unlock(big_list_lock)
    /\ UNCHANGED <<brk, new_free_page_refs, reusable_page_refs,
                   processor_locks_base, sbrk_lock, free_refs_lock, live,
                   crashed, inits, pre, last>>
    /\ UNCHANGED env

\* line 121
bm_sbrk_lock(t) ==
    /\ ~crashed
    /\ pc[t] = "bm_sbrk_lock"
    /\ sbrk_lock = 0
    /\ sbrk_lock' = t
    /\ Goto(t, "bm_sbrk")
    /\ UNCHANGED <<mem, brk, globals, big_list_lock, free_refs_lock, loc,
                   live, crashed, inits, pre, last>>
    /\ UNCHANGED env

\* lines 122-134
bm_sbrk(t) ==
    /\ ~crashed
    /\ pc[t] = "bm_sbrk"
    /\ LET r == mem_sbrk(brk, loc[t].num_pages * PAGE_SIZE)
           header_ptr == r[1]
       IN  /\ brk' = r[2]
           /\ IF header_ptr # NULL
              THEN /\ mem' = FreshHeader(mem, header_ptr, loc[t].num_pages)
                   /\ loc' = [loc EXCEPT
                                ![t].result = header_ptr + 2 * IntSize,
                                ![t].via = "grow",
                                ![t].sbrk_calls = @ + 1]
              ELSE /\ loc' = [loc EXCEPT ![t].result = NULL,
                                         ![t].via = "grow",
                                         ![t].sbrk_null = TRUE,
                                         ![t].sbrk_calls = @ + 1]
                   /\ UNCHANGED mem
    /\ sbrk_lock' = pthread_mutex_unlock(sbrk_lock)
    /\ Goto(t, "ret")
    /\ UNCHANGED <<globals, big_list_lock, free_refs_lock, live, crashed,
                   inits, pre, last>>
    /\ UNCHANGED env

(* ------------------------------------------------------------------ *)
(* mm_free: the call, then subpage_mm_free or big_mm_free               *)
(* ------------------------------------------------------------------ *)
\* lines 448-453, 389-393: the first word of the pointer's page routes it
mm_free(t, a) ==
    /\ Call(t)
    /\ a \in live
    /\ live' = live \ {a}
    /\ LET page_head == get_page_head(a.p)
           processor_index == Rd32(mem, page_head)
       IN  /\ Goto(t, IF processor_index = -1 THEN "bf_lock" ELSE "sf_lock")
           /\ loc' = [loc EXCEPT ![t] =
                 [L0 EXCEPT !.op = "free", !.ptr = a.p, !.sz = a.sz,
                   !.via = a.via, !.num_pages = a.pages,
                   !.processor_index =
                       IF processor_index = -1 THEN 0 ELSE processor_index,
                   !.block_class_index =
                       IF processor_index = -1 THEN 0
                       ELSE Rd32(mem, page_head + IntSize)]]
    /\ pre' = NoPre
    /\ last' = NoLast
    /\ UNCHANGED <<mem, brk, globals, locks, crashed, inits>>

\* line 395
sf_lock(t) ==
    /\ ~crashed
    /\ pc[t] = "sf_lock"
    /\ Rd32(mem, MutexOf(t)) = 0
    /\ mem' = Wr32(mem, MutexOf(t), t)
    /\ Goto(t, "sf_walk")
    /\ UNCHANGED <<brk, globals, locks, loc, live, crashed, inits, pre, last>>
    /\ UNCHANGED env

\* lines 397-433: find the page-ref of the page and push the block; the
\* page-ref is used without a test, a walk that matches nothing faults
sf_walk(t) ==
    /\ ~crashed
    /\ pc[t] = "sf_walk"
    /\ LET p == loc[t].processor_index
           c == loc[t].block_class_index
           f == FindOwner(mem, pageref_head(mem, p, c), NULL,
                          get_page_head(loc[t].ptr))
           page_ref == f[1]
           m1 == PushBlock(mem, page_ref, loc[t].ptr)
       IN  IF page_ref = NULL
           THEN /\ crashed' = TRUE
                /\ Goto(t, "segv")
                /\ UNCHANGED <<mem, loc>>
           ELSE IF PageIsEmpty(m1, page_ref, c)
           THEN /\ mem' = DetachPageref(m1, page_ref, f[2], p, c)
                /\ loc' = [loc EXCEPT ![t].page_ref = page_ref]
                /\ Goto(t, "sf_pool_lock")
                /\ UNCHANGED crashed
           ELSE /\ mem' = Wr32(m1, MutexOf(t), 0)
                /\ loc' = [loc EXCEPT ![t].page_ref = page_ref]
                /\ Goto(t, "ret")
                /\ UNCHANGED crashed
    /\ UNCHANGED <<brk, globals, locks, live, inits, pre, last>>
    /\ UNCHANGED env

\* line 427
sf_pool_lock(t) ==
    /\ ~crashed
    /\ pc[t] = "sf_pool_lock"
    /\ free_refs_lock = 0
    /\ free_refs_lock' = t
    /\ Goto(t, "sf_pool")
    /\ UNCHANGED <<mem, brk, globals, sbrk_lock, big_list_lock, loc, live,
                   crashed, inits, pre, last>>
    /\ UNCHANGED env

\* lines 428-433: the emptied page-ref becomes the head of the reusable list
sf_pool(t) ==
    /\ ~crashed
    /\ pc[t] = "sf_pool"
    /\ LET page_ref == loc[t].page_ref
           m1 == Wr64(mem, page_ref + PR_next, reusable_page_refs)
       IN  /\ mem' = Wr32(m1, MutexOf(t), 0)
           /\ reusable_page_refs' = page_ref
           /\ last' = IF OthersIdle(t)
                      THEN [page_ref |-> page_ref,
                            processor_index |-> loc[t].processor_index,
                            block_class_index |-> loc[t].block_class_index,
                            base |-> get_page_head(loc[t].ptr)]
                      ELSE NoLast
    /\ free_refs_lock' = pthread_mutex_unlock(free_refs_lock)
    /\ Goto(t, "ret")
    /\ UNCHANGED <<brk, big_list, new_free_page_refs, processor_locks_base,
                   sbrk_lock, big_list_lock, loc, live, crashed, inits, pre>>
    /\ UNCHANGED env

\* line 149
bf_lock(t) ==
    /\ ~crashed
    /\ pc[t] = "bf_lock"
    /\ big_list_lock = 0
    /\ big_list_lock' = t
    /\ Goto(t, "bf_push")
    /\ UNCHANGED <<mem, brk, globals, sbrk_lock, free_refs_lock, loc, live,
                   crashed, inits, pre, last>>
    /\ UNCHANGED env

\* lines 146-152
bf_push(t) ==
    /\ ~crashed
    /\ pc[t] = "bf_push"
    /\ LET r == PushEntry(mem, big_list, HeaderOf(loc[t].ptr))
       IN  /\ mem' = r[1]
           /\ big_list' = r[2]
    /\ big_list_lock' = pthread_mutex_unlock(big_list_lock)
    /\ Goto(t, "ret")
    /\ UNCHANGED <<brk, new_free_page_refs, reusable_page_refs,
                   processor_locks_base, sbrk_lock, free_refs_lock, loc, live,
                   crashed, inits, pre, last>>
    /\ UNCHANGED env

(* ------------------------------------------------------------------ *)
(* The callers                                                          *)
(* ------------------------------------------------------------------ *)
\* The payload now belongs to the caller. The link the allocator left at
\* its start (the freelist link of a block, the next field of a large entry
\* at header + 8) is not read again before it is written again, so the
\* model keeps it as zero; what the allocator does read again of a payload
\* is the caller's to set (UserWrite).
HandOver(m, l) ==
    IF l.op = "malloc" /\ l.result # NULL
    THEN Wr64(m, IF l.via = "sub" THEN l.result ELSE l.result + IntSize, 0)
    ELSE m

\* the call returns; the caller now holds what mm_malloc handed back
Return(t) ==
    /\ ~crashed
    /\ pc[t] = "ret"
    /\ mem' = HandOver(mem, loc[t])
    /\ live' = IF loc[t].op = "malloc" /\ loc[t].result # NULL
               THEN live \cup {[p |-> loc[t].result, sz |-> loc[t].sz,
                                via |-> loc[t].via,
                                pages |-> loc[t].num_pages]}
               ELSE live
    /\ loc' = [loc EXCEPT ![t] = L0]
    /\ Goto(t, "idle")
    /\ pre' = IF pre.t = t THEN NoPre ELSE pre
    /\ UNCHANGED <<brk, globals, locks, crashed, inits, last>>
    /\ UNCHANGED env

\* the free blocks of the page of page-ref r: the first num_free nodes of
\* its freelist
FreeBlocks(m, r) ==
    Range(Chain(m, Rd64(m, r + PR_freelist), 0, Rd32(m, r + PR_num_free)))

\* the links of free blocks that lie inside the payload of a live allocation
PayloadLinkWords ==
    {w \in UNION {FreeBlocks(mem, r) : r \in Attached(mem)} :
        \E a \in live : a.p <= w /\ w + PtrSize <= a.p + a.sz}

\* first words of the pages that lie wholly inside the payload of a large
\* allocation: mm_free reads them to route a pointer of the page
PayloadPageWords ==
    {w \in {DsegLo + k * PAGE_SIZE : k \in 0 .. (HeapPages - 1)} :
        \E a \in live : a.pages > 0 /\ a.p <= w /\ w + IntSize <= a.p + a.sz}

\* the places in the callers' payloads that the allocator reads again
PayloadWords == PayloadPageWords \cup PayloadLinkWords

\* a caller that is in no call stores in a payload: a word at the head of a
\* page, a pointer where a free block has its link
UserWrite(w, v) ==
    /\ ~crashed
    /\ \E t \in callers : pc[t] = "idle"
    /\ w \in PayloadWords
    /\ IF w \in PayloadLinkWords
       THEN /\ v \in UserPtrs
            /\ Rd64(mem, w) # v
            /\ mem' = Wr64(mem, w, v)
       ELSE /\ v \in UserWords
            /\ Rd32(mem, w) # v
            /\ mem' = Wr32(mem, w, v)
    /\ UNCHANGED <<brk, globals, locks, pc, loc, live, crashed, inits, pre,
                   last>>
    /\ UNCHANGED env

\* lines 456-482, called again on the initialised allocator; the region is
\* zeroed through the result of mem_sbrk without a test
mm_init(t) ==
    /\ Call(t)
    /\ OthersIdle(t)
    /\ inits <= MaxReInit
    /\ inits' = inits + 1
    /\ LET r == mem_sbrk(brk, page_needed * PAGE_SIZE)
           ref == r[1]
       IN  /\ brk' = r[2]
           /\ IF ref = NULL
              THEN /\ crashed' = TRUE
                   /\ UNCHANGED <<mem, processor_locks_base>>
              ELSE /\ mem' = bzero(mem, ref, page_needed * PAGE_SIZE)
                   /\ processor_locks_base' = ref + freelist_space
                   /\ UNCHANGED crashed
    /\ last' = NoLast
    /\ UNCHANGED <<big_list, new_free_page_refs, reusable_page_refs, locks,
                   pc, loc, live, pre>>

Next ==
    \/ \E t \in Threads, sz \in SubSizes \cup BigSizes, cpu \in Procs :
          mm_malloc(t, sz, cpu)
    \/ \E t \in Threads : sm_lock(t)
    \/ \E t \in Threads : sm_walk(t)
    \/ \E t \in Threads : ap_lock(t)
    \/ \E t \in Threads : ap_take_reusable(t)
    \/ \E t \in Threads : ap_take_fresh(t)
    \/ \E t \in Threads : ap_meta_lock(t)
    \/ \E t \in Threads : ap_meta_sbrk(t)
    \/ \E t \in Threads : ap_data_lock(t)
    \/ \E t \in Threads : ap_data_sbrk(t)
    \/ \E t \in Threads : bm_lock(t)
    \/ \E t \in Threads : bm_walk(t)
    \/ \E t \in Threads : bm_sbrk_lock(t)
    \/ \E t \in Threads : bm_sbrk(t)
    \/ \E t \in Threads, a \in live : mm_free(t, a)
    \/ \E t \in Threads : sf_lock(t)
    \/ \E t \in Threads : sf_walk(t)
    \/ \E t \in Threads : sf_pool_lock(t)
    \/ \E t \in Threads : sf_pool(t)
    \/ \E t \in Threads : bf_lock(t)
    \/ \E t \in Threads : bf_push(t)
    \/ \E t \in Threads : Return(t)
    \/ \E w \in PayloadWords, v \in UserWords \cup UserPtrs : UserWrite(w, v)
    \/ \E t \in Threads : mm_init(t)

Spec == Init /\ [][Next]_vars

SpecSeq == InitSeq /\ [][Next]_vars

\* one thread on one processor that draws from class 1024 alone and stores
\* pointers in what it holds
NextSub ==
    \/ \E t \in Threads, sz \in SmallSizes : mm_malloc(t, sz, 0)
    \/ \E t \in Threads : sm_lock(t)
    \/ \E t \in Threads : sm_walk(t)
    \/ \E t \in Threads : ap_lock(t)
    \/ \E t \in Threads : ap_take_reusable(t)
    \/ \E t \in Threads : ap_take_fresh(t)
    \/ \E t \in Threads : ap_meta_lock(t)
    \/ \E t \in Threads : ap_meta_sbrk(t)
    \/ \E t \in Threads : ap_data_lock(t)
    \/ \E t \in Threads : ap_data_sbrk(t)
    \/ \E t \in Threads, a \in live : mm_free(t, a)
    \/ \E t \in Threads : sf_lock(t)
    \/ \E t \in Threads : sf_walk(t)
    \/ \E t \in Threads : sf_pool_lock(t)
    \/ \E t \in Threads : sf_pool(t)
    \/ \E t \in Threads : Return(t)
    \/ \E w \in PayloadWords, v \in UserWords \cup UserPtrs : UserWrite(w, v)

SpecSub == InitSub /\ [][NextSub]_vars

(* ------------------------------------------------------------------ *)
(* Properties                                                           *)
(* ------------------------------------------------------------------ *)
\* C1: no two live allocations overlap: for live pointers p (requested size
\* s) and q (requested size t) the ranges [p, p+s) and [q, q+t) are disjoint
NoOverlap ==
    \A a, b \in live :
        a # b => (a.p + a.sz <= b.p) \/ (b.p + b.sz <= a.p)

\* C2: an allocate call returns NULL exactly when mem_sbrk returned NULL
\* during the call, and a NULL from mem_sbrk is never stored through
NullIffSbrkNull ==
    \A t \in Threads :
        /\ (pc[t] = "ret" /\ loc[t].op = "malloc")
              => (loc[t].result = NULL <=> loc[t].sbrk_null)
        /\ loc[t].sbrk_null => pc[t] # "segv"

\* C3: an allocate call for which mem_sbrk returned NULL leaves the shared
\* state as it was when the call started, and no page-ref without a data
\* page on an arena list
FailedAllocLeavesShared ==
    \A t \in Threads :
        (loc[t].sbrk_null /\ pre.t = t) =>
            /\ Shared = pre.shared
            /\ \A r \in Attached(mem) : Rd64(mem, r + PR_freelist_base) # NULL

\* C4: every live large allocation has -1 in the first word of the page its
\* pointer lies in and its page count in the word before the payload
LargeHeaderInPlace ==
    \A a \in live :
        a.pages > 0 =>
            /\ Rd32(mem, get_page_head(a.p)) = -1
            /\ Rd32(mem, a.p - IntSize) = a.pages

\* C5: a free of a large allocation takes the large path, and when it is
\* done the head of the large freelist is one entry at the allocation's
\* header with the allocation's page count
LargeFreeRouted ==
    \A t \in Threads :
        (loc[t].op = "free" /\ loc[t].num_pages > 0) =>
            /\ pc[t] \in {"bf_lock", "bf_push", "ret"}
            /\ pc[t] = "ret" =>
                  /\ big_list = HeaderOf(loc[t].ptr)
                  /\ Rd32(mem, big_list + BF_num_pages) = loc[t].num_pages

\* the holder of the lock thread t is about to take, 0 if it is free or t
\* is not at a lock
HolderOfWanted(t) ==
    CASE pc[t] \in {"sm_lock", "sf_lock"} -> Rd32(mem, MutexOf(t))
      [] pc[t] \in {"ap_lock", "sf_pool_lock"} -> free_refs_lock
      [] pc[t] \in {"ap_meta_lock", "ap_data_lock", "bm_sbrk_lock"} -> sbrk_lock
      [] pc[t] \in {"bm_lock", "bf_lock"} -> big_list_lock
      [] OTHER -> 0

\* thread t has a step to take: it is in a call, the process is alive and
\* the lock it wants, if any, is free
CanStep(t) == pc[t] \notin {"idle", "segv"} /\ ~crashed /\ HolderOfWanted(t) = 0

\* C6: every call that has started can still return: in no reachable state
\* is a thread inside a call that has no step left to take and waits for no
\* thread that has one
EveryCallCanReturn ==
    \A t \in Threads :
        pc[t] # "idle" =>
            \/ CanStep(t)
            \/ HolderOfWanted(t) \in Threads /\ CanStep(HolderOfWanted(t))

BlocksAccounted ==
    (~crashed /\ \A t \in Threads : pc[t] = "idle") =>
        \A p \in Procs, c \in Classes :
            \A r \in Range(ArenaList(mem, p, c)) :
                Cardinality({a \in live :
                    get_page_head(a.p) = Rd64(mem, r + PR_freelist_base)})
                  + Rd32(mem, r + PR_num_free)
                  = PAGE_SIZE \div ClassSize(c)

\* C9: a call of mm_init on the initialised allocator leaves the break, the
\* heap and the place of the processor locks as they were
InitIdempotent ==
    [][inits' # inits =>
          /\ brk' = brk
          /\ mem' = mem
          /\ processor_locks_base' = processor_locks_base
          /\ crashed' = crashed]_vars

\* the entries of the large freelist with their page counts, in list order
BigEntries(m, bl) ==
    [i \in DOMAIN BigList(m, bl) |->
        <<BigList(m, bl)[i], Rd32(m, BigList(m, bl)[i] + BF_num_pages)>>]

\* the sequence s without its i-th element
Without(s, i) == SubSeq(s, 1, i - 1) \o SubSeq(s, i + 1, Len(s))

\* C10: the walk of a large allocation of n pages goes on to mem_sbrk only
\* if no entry has n pages or more; otherwise the first such entry serves
\* it and the break stays: a larger entry keeps its place with n pages less
\* and its high tail is returned, an equal entry is unlinked and returned
LargeFirstFit ==
    [][\A t \in Threads :
          (pc[t] = "bm_walk" /\ pc'[t] # "bm_walk") =>
              LET n == loc[t].num_pages
                  es == BigEntries(mem, big_list)
                  fits == {i \in DOMAIN es : es[i][2] >= n}
                  i == CHOOSE k \in fits : \A j \in fits : k <= j
              IN  IF fits = {}
                  THEN /\ pc'[t] = "bm_sbrk_lock"
                       /\ BigEntries(mem', big_list') = es
                  ELSE /\ pc'[t] = "ret"
                       /\ brk' = brk
                       /\ IF es[i][2] > n
                          THEN /\ BigEntries(mem', big_list')
                                    = [es EXCEPT ![i][2] = @ - n]
                               /\ loc'[t].result =
                                    es[i][1] + (es[i][2] - n) * PAGE_SIZE
                                             + IntSize
                          ELSE /\ BigEntries(mem', big_list') = Without(es, i)
                               /\ loc'[t].result = es[i][1] + IntSize]_vars

\* the walk passed a smaller entry and unlinked the equal one behind it
LargeFirstFitSeen ==
    \E t \in Threads :
        /\ pc[t] = "ret"
        /\ loc[t].op = "malloc"
        /\ loc[t].via = "exact"
        /\ loc[t].num_pages = 2
        /\ big_list # NULL

\* C11: a free of a subpage block holds the mutex of the processor stored
\* in the first word of the block's page, pushes the block on the page-ref
\* that is bound to that page and is on the list of the stored processor
\* and class, and leaves the arena lists of every other processor alone
FreeGoesToStoredArena ==
    [][\A t \in Threads :
          (pc[t] = "sf_walk" /\ pc'[t] \in {"ret", "sf_pool_lock"}
              /\ loc[t].via = "sub") =>
              LET page_head == get_page_head(loc[t].ptr)
                  P == Rd32(mem, page_head)
                  C == Rd32(mem, page_head + IntSize)
                  r == loc'[t].page_ref
              IN  /\ Rd32(mem, processor_locks_base + P * CACHELINE_SIZE) = t
                  /\ r \in Range(ArenaList(mem, P, C))
                  /\ Rd64(mem, r + PR_freelist_base) = page_head
                  /\ Rd64(mem', r + PR_freelist) = loc[t].ptr
                  /\ Rd32(mem', r + PR_num_free)
                        = Rd32(mem, r + PR_num_free) + 1
                  /\ \A q \in Procs \ {P}, c \in Classes :
                        /\ ArenaList(mem', q, c) = ArenaList(mem, q, c)
                        /\ \A x \in Range(ArenaList(mem, q, c)) :
                              /\ Rd64(mem', x + PR_freelist)
                                    = Rd64(mem, x + PR_freelist)
                              /\ Rd32(mem', x + PR_num_free)
                                    = Rd32(mem, x + PR_num_free)]_vars

\* a block of a page of processor 1 has been freed while processor 0 has a
\* page of its own
FreeGoesToStoredArenaSeen ==
    \E t \in Threads :
        /\ pc[t] = "ret"
        /\ loc[t].op = "free"
        /\ loc[t].via = "sub"
        /\ loc[t].processor_index = 1
        /\ \E c \in Classes : ArenaList(mem, 0, c) # <<>>

\* C12: every live subpage allocation lies inside its slot of the page: the
\* block at page base + 8 is held only for a request of at most the class
\* size less 8, and no allocation reaches past the end of its slot
BaseBlockInSlot ==
    \A a \in live :
        (a.via = "sub" /\ InHeap(a.p)) =>
            LET page_head == get_page_head(a.p)
                class_size == ClassSize(Rd32(mem, page_head + IntSize))
                slot == a.p - ((a.p - page_head) % class_size)
            IN  /\ a.p = page_head + 2 * IntSize
                      => a.sz <= class_size - 2 * IntSize
                /\ a.p + a.sz <= slot + class_size

\* C13: every pointer held by the caller lies in the heap, lo <= p < hi; a
\* subpage pointer of class size c has (p - lo) mod c equal to 0 or 8 and a
\* large pointer has (p - lo) mod 4096 equal to 8
PointersAligned ==
    \A a \in live :
        /\ DsegLo <= a.p /\ a.p < brk
        /\ a.via = "sub" =>
              (a.p - DsegLo) % ClassSize(get_block_class_index(a.sz))
                  \in {0, 2 * IntSize}
        /\ a.via # "sub" => (a.p - DsegLo) % PAGE_SIZE = 2 * IntSize

Pagerefs ==
    {page + i : page \in meta_pages, i \in {0} \cup PagerefOffsets}

\* the places <<list, position, page-ref>> of the arena lists and of the
\* reusable list (-1)
PagerefPlaces ==
    LET at(k, l) == {<<k, i, l[i]>> : i \in DOMAIN l}
    IN  UNION {at(<<p, c>>, ArenaList(mem, p, c)) : p \in Procs, c \in Classes}
          \cup at(<<-1, 0>>, ReusableList(mem, reusable_page_refs))

\* is the list of fresh records made of the records S, each once: the list
\* is walked by its links, which lines 270-275 lay from each record to the
\* one below it; every record of S links to a lower record of S or ends the
\* list, no two link to the same place, none links to the head
FreshListIs(S) ==
    LET nexts == {Rd64(mem, r + PR_next) : r \in S}
    IN  IF S = {} THEN new_free_page_refs = NULL
        ELSE /\ new_free_page_refs \in S
             /\ new_free_page_refs \notin nexts
             /\ NULL \in nexts
             /\ nexts \ {NULL} \subseteq S
             /\ Cardinality(nexts) = Cardinality(S)
             /\ \A r \in S : Rd64(mem, r + PR_next) < r

\* the page-refs a free has unlinked from its arena list (lines 419-422)
\* and not yet pushed on the reusable list (lines 427-429)
PagerefsInHand ==
    {loc[t].page_ref : t \in {u \in Threads : pc[u] \in {"sf_pool_lock", "sf_pool"}}}

RECURSIVE Follow(_, _, _)
Follow(m, a, n) ==
    IF n = 0 THEN a
    ELSE IF a = NULL \/ ~Mapped(a) THEN -1
    ELSE Follow(m, Rd64(m, a), n - 1)

\* C16: between operations the freelist of every attached page-ref with a
\* page has exactly num_free nodes: following the links from the head, the
\* link of the num_free-th node is null and none before it is
FreelistEndsAfterNumFree ==
    (~crashed /\ \A t \in Threads : pc[t] = "idle") =>
        \A r \in Attached(mem) :
            Rd64(mem, r + PR_freelist_base) # NULL =>
                Follow(mem, Rd64(mem, r + PR_freelist),
                       Rd32(mem, r + PR_num_free)) = NULL

\* C17: a thread that takes an arena mutex holds neither the pool lock nor
\* the growth lock, a thread that takes the pool lock does not hold the
\* growth lock, no thread holds two arena mutexes, and the holder of the
\* large-freelist lock holds no other lock
LockOrder ==
    [][\A t \in Threads :
          LET arena(m, base) ==
                  {p \in Procs : Rd32(m, processor_mutex(base, p)) = t}
              before == arena(mem, processor_locks_base)
              after == arena(mem', processor_locks_base')
          IN  /\ after \ before # {} =>
                    free_refs_lock # t /\ sbrk_lock # t
              /\ (free_refs_lock' = t /\ free_refs_lock # t) =>
                    sbrk_lock # t
              /\ Cardinality(after) <= 1
              /\ big_list_lock' = t =>
                    /\ after = {}
                    /\ free_refs_lock' # t
                    /\ sbrk_lock' # t]_vars

\* a thread inside allocate_pageref holds its arena mutex, the pool lock
\* and the growth lock at once
LockOrderSeen ==
    \E t \in Threads :
        /\ pc[t] = "ap_meta_sbrk"
        /\ Rd32(mem, MutexOf(t)) = t
        /\ free_refs_lock = t
        /\ sbrk_lock = t
        /\ \E u \in Threads \ {t} : pc[u] = "bm_sbrk_lock"

\* C18: every step that moves the break is made by the holder of the growth
\* lock, every step that changes the large freelist by the holder of the
\* large-freelist lock, and every step that changes the head of the
\* reusable or of the fresh list by the holder of the pool lock
SharedStateLocked ==
    [][/\ brk' # brk => sbrk_lock \in Threads
       /\ big_list' # big_list => big_list_lock \in Threads
       /\ (new_free_page_refs' # new_free_page_refs
              \/ reusable_page_refs' # reusable_page_refs)
            => free_refs_lock \in Threads]_vars

FreeFindsPageref ==
    \A t \in Threads :
        (pc[t] = "sf_walk" /\ loc[t].via = "sub") =>
            LET page_head == get_page_head(loc[t].ptr)
                f == FindOwner(mem, pageref_head(mem, loc[t].processor_index,
                                                 loc[t].block_class_index),
                               NULL, page_head)
            IN  /\ f[1] # NULL
                /\ Rd64(mem, f[1] + PR_freelist_base) = page_head

====
